---- MODULE Spec2Model ----
(***************************************************************************)
(* AstraMentor core: the knowledge-point ledger and its state file         *)
(* (core/learner_state.py), the mastery estimator (core/scoring.py), the   *)
(* evaluate-then-record flow (agents/evaluation_agent.py) and the          *)
(* learning-path ordering (agents/knowledge_graph_agent.py).               *)
(*                                                                         *)
(* Numbers.  Mastery, score, cap, rates and factors are Python floats in   *)
(* the source.  Here every such value is an integer count of 1/10000       *)
(* (0.4 is 4000, 1.0 is 10000), except inside calculate_new_mastery, where *)
(* the products are carried exactly at the scales named there.  Where a    *)
(* float of the source differs from its decimal value in a way that shows  *)
(* in a result (a rounding tie, a decayed baseline on a stage boundary),   *)
(* the definition concerned says how it is carried.                        *)
(*                                                                         *)
(* Time.  datetime.now() is a logical clock that ticks once per ledger     *)
(* call; a timestamp is the tick at which it was taken.                    *)
(***************************************************************************)
EXTENDS Integers, Sequences, FiniteSets, TLC

VARIABLES
    knowledge_points,   \* LearnerState.knowledge_points: name -> KnowledgePoint
    state_file,         \* LearnerState.state_file is configured (TRUE) or None
    file,               \* what the state file on disk holds
    clock,              \* datetime.now()
    call,               \* the last ledger call: its arguments and what it returned
    args,               \* the arguments of one calculate_new_mastery call
    result,             \* the ScoringResult that call returned
    mastery,            \* a point's stored mastery over successive practice rounds
    tier,               \* the difficulty of those rounds
    practised,          \* a practice round has been recorded
    graph_data,         \* the graph handed to get_learning_path: nodes and edges
    learning_path,      \* what get_learning_path did with it
    pending,            \* per caller: the EvaluationResult in hand, not yet recorded
    basis,              \* per history entry: the mastery its new_mastery came from
    reloaded,           \* the ledger of a new LearnerState built on the state file
    created_with,       \* per name: the mastery the point was created with
    question_type,      \* the text handed to determine_difficulty
    classified,         \* the TaskDifficulty it returned
    summary             \* what get_progress_summary returned

ledgerVars == <<knowledge_points, state_file, file, clock, call>>
estimateVars == <<args, result>>
practiceVars == <<mastery, tier, practised>>
graphVars == <<graph_data, learning_path>>
sessionVars == <<pending, basis>>
persistVars == <<reloaded>>
classifyVars == <<question_type, classified>>
reportVars == <<created_with, summary>>
vars ==
    <<ledgerVars, estimateVars, practiceVars, graphVars, sessionVars, persistVars,
    classifyVars, reportVars>>

----------------------------------------------------------------------------
(* Bounds and input domains of the ledger.                                 *)

\* Ledger calls made in one run (the clock stops there).
MaxOps == 3

Names == {"loops", "recursion"}
Targets == {6000, 8000}
Notes == {"", "n1", "n2"}
InitialMasteries == {0, 3000}
NewMasteries == {2500, 9000}
TaskScores == {3000, 9500}
Feedbacks == {"ok", "retry"}

----------------------------------------------------------------------------
(* core/learner_state.py                                                   *)

EmptyMap == [n \in {} |-> 0]

\* KnowledgePoint(name=, actual_mastery=, target_mastery=, note=): history
\* defaults to a fresh list, created_at and updated_at to datetime.now().
KnowledgePoint(name, actual_mastery, target_mastery, note, now) ==
    [ name           |-> name,
      actual_mastery |-> actual_mastery,
      target_mastery |-> target_mastery,
      note           |-> note,
      history        |-> <<>>,
      created_at     |-> now,
      updated_at     |-> now ]

\* The history entry with the new mastery written as the old one too.
HistoryEntry_NewAsOld(kp, new_mastery, score, feedback, now) ==
    [ timestamp   |-> now,
      old_mastery |-> new_mastery,
      new_mastery |-> new_mastery,
      score       |-> score,
      feedback    |-> feedback ]

\* The entry KnowledgePoint.update_mastery appends.
HistoryEntry(kp, new_mastery, score, feedback, now) ==
    [ timestamp   |-> now,
      old_mastery |-> kp.actual_mastery,
      new_mastery |-> new_mastery,
      score       |-> score,
      feedback    |-> feedback ]

\* KnowledgePoint.update_mastery, with the entry dropped instead of appended.
KnowledgePoint_update_mastery_NoHistory(kp, new_mastery, score, feedback, now) ==
    [kp EXCEPT !.actual_mastery = new_mastery, !.updated_at = now]

\* KnowledgePoint.update_mastery(new_mastery, score, feedback)
KnowledgePoint_update_mastery(kp, new_mastery, score, feedback, now) ==
    [kp EXCEPT
        !.history        = Append(@, HistoryEntry(kp, new_mastery, score, feedback, now)),
        !.actual_mastery = new_mastery,
        !.updated_at     = now]

\* is_mastered that wants the mastery above the target.
is_mastered_Strict(kp) == kp.actual_mastery > kp.target_mastery

\* KnowledgePoint.is_mastered
is_mastered(kp) == kp.actual_mastery >= kp.target_mastery

\* KnowledgePoint.to_dict: asdict(self), a deep copy of the fields.
to_dict(kp) ==
    [ name           |-> kp.name,
      actual_mastery |-> kp.actual_mastery,
      target_mastery |-> kp.target_mastery,
      note           |-> kp.note,
      history        |-> kp.history,
      created_at     |-> kp.created_at,
      updated_at     |-> kp.updated_at ]

\* KnowledgePoint.from_dict with the history argument left at its default.
from_dict_NoHistory(data) ==
    [ name           |-> data.name,
      actual_mastery |-> data.actual_mastery,
      target_mastery |-> data.target_mastery,
      note           |-> data.note,
      history        |-> <<>>,
      created_at     |-> data.created_at,
      updated_at     |-> data.updated_at ]

\* KnowledgePoint.from_dict: cls(**data), one constructor argument per key.
from_dict(data) ==
    [ name           |-> data.name,
      actual_mastery |-> data.actual_mastery,
      target_mastery |-> data.target_mastery,
      note           |-> data.note,
      history        |-> data.history,
      created_at     |-> data.created_at,
      updated_at     |-> data.updated_at ]

\* The text json.dump writes and json.load reads.  A float is written as its
\* shortest decimal: sign, whole part, and the digits after the point with
\* the trailing zeros dropped (one digit at least, as in 1.0).  A string is
\* written as its text; a timestamp is a string (isoformat) in the source.
RECURSIVE StripZeros(_)
StripZeros(digits) ==
    IF Len(digits) > 1 /\ digits[Len(digits)] = 0
    THEN StripZeros(SubSeq(digits, 1, Len(digits) - 1))
    ELSE digits

json_number(x) ==
    LET a == IF x < 0 THEN -x ELSE x
        f == a % 10000
    IN  [ type     |-> "number",
          negative |-> x < 0,
          whole    |-> a \div 10000,
          fraction |-> StripZeros(<<f \div 1000, (f \div 100) % 10,
                                    (f \div 10) % 10, f % 10>>) ]

RECURSIVE FractionValue(_, _)
FractionValue(digits, weight) ==
    IF digits = <<>>
    THEN 0
    ELSE Head(digits) * weight + FractionValue(Tail(digits), weight \div 10)

parse_number(j) ==
    LET a == j.whole * 10000 + FractionValue(j.fraction, 1000)
    IN  IF j.negative THEN -a ELSE a

json_string(s) == [type |-> "string", text |-> s]

parse_string(j) == j.text

\* json.dump of the mapping name -> asdict(KnowledgePoint).
json_dump(data) ==
    [ n \in DOMAIN data |->
        [ name           |-> json_string(data[n].name),
          actual_mastery |-> json_number(data[n].actual_mastery),
          target_mastery |-> json_number(data[n].target_mastery),
          note           |-> json_string(data[n].note),
          history        |->
              [ i \in DOMAIN data[n].history |->
                  [ timestamp   |-> json_string(data[n].history[i].timestamp),
                    old_mastery |-> json_number(data[n].history[i].old_mastery),
                    new_mastery |-> json_number(data[n].history[i].new_mastery),
                    score       |-> json_number(data[n].history[i].score),
                    feedback    |-> json_string(data[n].history[i].feedback) ] ],
          created_at     |-> json_string(data[n].created_at),
          updated_at     |-> json_string(data[n].updated_at) ] ]

\* json.load of that text.
json_load(text) ==
    [ n \in DOMAIN text |->
        [ name           |-> parse_string(text[n].name),
          actual_mastery |-> parse_number(text[n].actual_mastery),
          target_mastery |-> parse_number(text[n].target_mastery),
          note           |-> parse_string(text[n].note),
          history        |->
              [ i \in DOMAIN text[n].history |->
                  [ timestamp   |-> parse_string(text[n].history[i].timestamp),
                    old_mastery |-> parse_number(text[n].history[i].old_mastery),
                    new_mastery |-> parse_number(text[n].history[i].new_mastery),
                    score       |-> parse_number(text[n].history[i].score),
                    feedback    |-> parse_string(text[n].history[i].feedback) ] ],
          created_at     |-> parse_string(text[n].created_at),
          updated_at     |-> parse_string(text[n].updated_at) ] ]

\* LearnerState.save: json.dump of the mapping name -> to_dict to the state
\* file; nothing is written when no state file is configured.
save(kps, configured, old_file) ==
    IF ~configured
    THEN old_file
    ELSE [ exists |-> TRUE,
           data   |-> json_dump([n \in DOMAIN kps |-> to_dict(kps[n])]) ]

\* LearnerState.load: the ledger read back from the state file.
load(f) ==
    LET data == json_load(f.data)
    IN  [n \in DOMAIN data |-> from_dict(data[n])]

\* _auto_save that never writes.
auto_save_Skip(kps, configured, old_file) == old_file

\* LearnerState._auto_save
auto_save(kps, configured, old_file) ==
    IF configured THEN save(kps, configured, old_file) ELSE old_file

\* The map with name bound to kp (dict item assignment).
Put(kps, name, kp) ==
    [n \in (DOMAIN kps) \cup {name} |-> IF n = name THEN kp ELSE kps[n]]

\* add_knowledge_point whose update branch also resets the mastery.
upsert_ResetMastery(kps, name, target_mastery, note, initial_mastery, now) ==
    IF name \notin DOMAIN kps
    THEN Put(kps, name, KnowledgePoint(name, initial_mastery, target_mastery, note, now))
    ELSE [kps EXCEPT ![name].target_mastery = target_mastery,
                     ![name].note = IF note # "" THEN note ELSE @,
                     ![name].actual_mastery = initial_mastery]

\* add_knowledge_point whose update branch leaves the target alone.
upsert_KeepTarget(kps, name, target_mastery, note, initial_mastery, now) ==
    IF name \notin DOMAIN kps
    THEN Put(kps, name, KnowledgePoint(name, initial_mastery, target_mastery, note, now))
    ELSE [kps EXCEPT ![name].note = IF note # "" THEN note ELSE @]

\* The knowledge_points map after LearnerState.add_knowledge_point: create the
\* point if absent; otherwise set the target, and the note when one is passed
\* ("if note:" is false for the empty string).
upsert(kps, name, target_mastery, note, initial_mastery, now) ==
    IF name \notin DOMAIN kps
    THEN Put(kps, name, KnowledgePoint(name, initial_mastery, target_mastery, note, now))
    ELSE [kps EXCEPT ![name].target_mastery = target_mastery,
                     ![name].note = IF note # "" THEN note ELSE @]

\* LearnerState.update_mastery that creates the missing point and records on it.
record_update_CreateMissing(kps, name, new_mastery, score, feedback, now) ==
    IF name \notin DOMAIN kps
    THEN [ret |-> TRUE,
          kps |-> Put(kps, name,
                      KnowledgePoint_update_mastery(
                          KnowledgePoint(name, 0, 8000, "", now),
                          new_mastery, score, feedback, now))]
    ELSE [ret |-> TRUE,
          kps |-> [kps EXCEPT ![name] =
                      KnowledgePoint_update_mastery(@, new_mastery, score, feedback, now)]]

\* LearnerState.update_mastery that records on every tracked point.
record_update_AllPoints(kps, name, new_mastery, score, feedback, now) ==
    IF name \notin DOMAIN kps
    THEN [ret |-> FALSE, kps |-> kps]
    ELSE [ret |-> TRUE,
          kps |-> [n \in DOMAIN kps |->
                      KnowledgePoint_update_mastery(kps[n], new_mastery, score, feedback, now)]]

\* update_mastery with new_mastery and score passed in each other's place.
record_update_ScoreAsMastery(kps, name, new_mastery, score, feedback, now) ==
    IF name \notin DOMAIN kps
    THEN [ret |-> FALSE, kps |-> kps]
    ELSE [ret |-> TRUE,
          kps |-> [kps EXCEPT ![name] =
                      KnowledgePoint_update_mastery(@, score, new_mastery, feedback, now)]]

\* LearnerState.update_mastery: what it returns and the map it leaves.
record_update(kps, name, new_mastery, score, feedback, now) ==
    IF name \notin DOMAIN kps
    THEN [ret |-> FALSE, kps |-> kps]
    ELSE [ret |-> TRUE,
          kps |-> [kps EXCEPT ![name] =
                      KnowledgePoint_update_mastery(@, new_mastery, score, feedback, now)]]

\* sum(kp.actual_mastery for kp in self.knowledge_points.values())
RECURSIVE sum_mastery(_)
sum_mastery(kps) ==
    IF DOMAIN kps = {} THEN 0
    ELSE LET name == CHOOSE n \in DOMAIN kps : TRUE
         IN  kps[name].actual_mastery
               + sum_mastery([n \in DOMAIN kps \ {name} |-> kps[n]])

\* round(total_mastery / total, 3), in 1/10000: the multiple of 0.001 nearest
\* to the quotient.  Exactly half-way between two, the float quotient lies
\* on either side of the tie, so either neighbour is returned (tie_up).
Round3(total_mastery, total, tie_up) ==
    LET step      == 10 * total
        below     == total_mastery \div step
        remainder == total_mastery - step * below
    IN  IF 2 * remainder > step \/ (2 * remainder = step /\ tie_up)
        THEN 10 * (below + 1)
        ELSE 10 * below

\* LearnerState.get_progress_summary
get_progress_summary(kps, tie_up) ==
    LET total == Cardinality(DOMAIN kps)
    IN  IF total = 0
        THEN [total |-> 0, mastered |-> 0, average_mastery |-> 0]
        ELSE [ total           |-> total,
               mastered        |-> Cardinality({n \in DOMAIN kps : is_mastered(kps[n])}),
               average_mastery |-> Round3(sum_mastery(kps), total, tie_up) ]

----------------------------------------------------------------------------
(* core/scoring.py and config.py: the configured numbers, in 1/10000.      *)

\* 1.0, and the four digits new_mastery is rounded to.
One == 10000

difficulty_concept == 4000
difficulty_basic_code == 7000
difficulty_advanced == 10000
base_learning_rate == 3000

stage_rate_0 == 4000
stage_rate_1 == 3500
stage_rate_2 == 2500
stage_rate_3 == 1500

forgetting_start_days == 7
forgetting_rate == 200
forgetting_floor == 1000

slip_threshold == 7000
guess_threshold == 3000
slip_protection == 5000
guess_dampening == 6000

Max(a, b) == IF a >= b THEN a ELSE b
Min(a, b) == IF a <= b THEN a ELSE b

\* max(0.0, x): the clamp without its upper side.
Clamp_NoUpper(x, one) == Max(0, x)

\* max(0.0, min(1.0, x)), where 1.0 is `one` at the scale of x.
Clamp(x, one) == Max(0, Min(one, x))

\* A rate or factor that is a whole number of hundredths, in hundredths.
Hundredths(x) == x \div 100

\* A cap or factor that is a whole number of tenths, in tenths.
Tenths(x) == x \div 1000

\* TaskDifficulty's three members; any other value is an unrecognised tier.
TaskDifficulty == {"concept", "basic_code", "advanced"}

\* get_difficulty_cap with no cap for a difficulty it does not know.
get_difficulty_cap_ZeroDefault(difficulty) ==
    CASE difficulty = "concept"    -> difficulty_concept
      [] difficulty = "basic_code" -> difficulty_basic_code
      [] difficulty = "advanced"   -> difficulty_advanced
      [] OTHER                     -> 0

\* ScoringEngine.get_difficulty_cap: caps.get(difficulty, difficulty_basic_code)
get_difficulty_cap(difficulty) ==
    CASE difficulty = "concept"    -> difficulty_concept
      [] difficulty = "basic_code" -> difficulty_basic_code
      [] difficulty = "advanced"   -> difficulty_advanced
      [] OTHER                     -> difficulty_basic_code

\* get_adaptive_learning_rate without the stages: the base rate always.
get_adaptive_learning_rate_Base(mastery6) == base_learning_rate

\* get_adaptive_learning_rate with an expert stage that barely moves.
get_adaptive_learning_rate_SlowExpert(mastery6) ==
    IF mastery6 < 200000 THEN stage_rate_0
    ELSE IF mastery6 < 500000 THEN stage_rate_1
    ELSE IF mastery6 < 800000 THEN stage_rate_2
    ELSE 500

\* ScoringEngine.get_adaptive_learning_rate, its argument at scale 10^6 (the
\* decayed baseline, old_mastery x time_decay in hundredths).
get_adaptive_learning_rate(mastery6) ==
    IF mastery6 < 200000 THEN stage_rate_0
    ELSE IF mastery6 < 500000 THEN stage_rate_1
    ELSE IF mastery6 < 800000 THEN stage_rate_2
    ELSE stage_rate_3

\* last_practice_time: None, or a time `days` whole days before now
\* ((datetime.now() - last_practice_time).days; negative for a future time).
NoPractice == [given |-> FALSE, days |-> 0]
DaysAgo(d) == [given |-> TRUE, days |-> d]

\* calculate_time_decay counting the day the decay starts as a day of decay.
calculate_time_decay_OffByOne(last_practice_time) ==
    IF ~last_practice_time.given THEN One
    ELSE IF last_practice_time.days <= forgetting_start_days THEN One
    ELSE Max(forgetting_floor,
             One - forgetting_rate
                     * (last_practice_time.days - forgetting_start_days + 1))

\* calculate_time_decay without the floor.
calculate_time_decay_NoFloor(last_practice_time) ==
    IF ~last_practice_time.given THEN One
    ELSE IF last_practice_time.days <= forgetting_start_days THEN One
    ELSE One - forgetting_rate * (last_practice_time.days - forgetting_start_days)

\* ScoringEngine.calculate_time_decay
calculate_time_decay(last_practice_time) ==
    IF ~last_practice_time.given THEN One
    ELSE IF last_practice_time.days <= forgetting_start_days THEN One
    ELSE Max(forgetting_floor,
             One - forgetting_rate * (last_practice_time.days - forgetting_start_days))

\* The numbers of extra days at which `1.0 - self.forgetting_rate * extra_days`,
\* evaluated in binary floating point, is the double next below its decimal
\* value (at 40 extra days 0.19999999999999996 for 0.2); at every other number
\* of extra days before the floor it is the decimal value's own double or the
\* one above it.
decay_below_extra_days == {16, 17, 27, 28, 33, 34, 35, 39, 40, 41}

\* old_mastery * time_decay as get_adaptive_learning_rate receives it, at
\* scale 10^6.  The float product is the exact product up to an error far
\* below one unit; under a factor that is a double below its decimal value a
\* product that is exactly a stage boundary arrives as a float below the
\* boundary (1.0 * 0.19999999999999996), which one unit less stands for.
stage_baseline6(old_mastery, last_practice_time, time_decay) ==
    IF /\ last_practice_time.given
       /\ time_decay < One
       /\ (last_practice_time.days - forgetting_start_days) \in decay_below_extra_days
    THEN old_mastery * Hundredths(time_decay) - 1
    ELSE old_mastery * Hundredths(time_decay)

\* calculate_tolerance_factor without the slip-protection branch.
calculate_tolerance_factor_NoSlip(old_mastery, task_score) ==
    IF old_mastery <= guess_threshold /\ task_score > 8000 THEN guess_dampening
    ELSE One

\* calculate_tolerance_factor without the guess-dampening branch.
calculate_tolerance_factor_NoGuess(old_mastery, task_score) ==
    IF old_mastery >= slip_threshold /\ task_score < 5000 THEN slip_protection
    ELSE One

\* calculate_tolerance_factor with the score thresholds inclusive.
calculate_tolerance_factor_Inclusive(old_mastery, task_score) ==
    IF old_mastery >= slip_threshold /\ task_score <= 5000 THEN slip_protection
    ELSE IF old_mastery <= guess_threshold /\ task_score >= 8000 THEN guess_dampening
    ELSE One

\* calculate_tolerance_factor taking a lucky guess up to the slip threshold.
calculate_tolerance_factor_WideGuess(old_mastery, task_score) ==
    IF old_mastery >= slip_threshold /\ task_score < 5000 THEN slip_protection
    ELSE IF old_mastery <= slip_threshold /\ task_score > 8000 THEN guess_dampening
    ELSE One

\* ScoringEngine.calculate_tolerance_factor
calculate_tolerance_factor(old_mastery, task_score) ==
    IF old_mastery >= slip_threshold /\ task_score < 5000 THEN slip_protection
    ELSE IF old_mastery <= guess_threshold /\ task_score > 8000 THEN guess_dampening
    ELSE One

\* target = task_score without the cap.
Target6_Uncapped(task_score, w_cap) == task_score * 100

\* target = (1 - task_score) * w_cap: the credit falls as the score rises.
Target6_Inverted(task_score, w_cap) == (One - task_score) * Tenths(w_cap) * 10

\* target = task_score * w_cap, at scale 10^6 (score in 1/10000 x cap in
\* tenths x 10).
Target6(task_score, w_cap) == task_score * Tenths(w_cap) * 10

\* round(x, 4) of a value x >= 0 held at scale 10^9: to the nearest 1/10000.
\* An exact tie in this arithmetic is decided in the source by the error of
\* the float operations, to either neighbour: tie_up says which.
Round4(x9, tie_up) ==
    LET q == x9 \div 100000
        r == x9 % 100000
    IN  IF r > 50000 \/ (r = 50000 /\ tie_up) THEN q + 1 ELSE q

\* The update with delta taken as baseline - target.
ema_update_SignFlipped(baseline6, target6, learning_rate, tolerance_factor) ==
    baseline6 * 1000
      + Hundredths(learning_rate) * Tenths(tolerance_factor) * (baseline6 - target6)

\* new_mastery = baseline + learning_rate * (delta * tolerance_factor) with
\* delta = target - baseline, at scale 10^9 (baseline and target at 10^6,
\* learning rate in hundredths, tolerance in tenths).  The legacy branch is
\* the same step on the undecayed mastery with tolerance 1.0.
ema_update(baseline6, target6, learning_rate, tolerance_factor) ==
    baseline6 * 1000
      + Hundredths(learning_rate) * Tenths(tolerance_factor) * (target6 - baseline6)

\* calculate_new_mastery with the time decay applied in legacy mode too.
calculate_new_mastery_LegacyDecays(old_mastery_in, task_score_in, difficulty, last_practice_time, use_enhanced, tie_up) ==
    LET old_mastery == Clamp(old_mastery_in, One)
        task_score  == Clamp(task_score_in, One)
        w_cap       == get_difficulty_cap(difficulty)
        target6     == Target6(task_score, w_cap)
        time_decay  == calculate_time_decay(last_practice_time)
        decayed6    == old_mastery * Hundredths(time_decay)
        learning_rate == IF use_enhanced
                         THEN get_adaptive_learning_rate(
                                  stage_baseline6(old_mastery, last_practice_time,
                                                  time_decay))
                         ELSE base_learning_rate
        tolerance_factor == IF use_enhanced
                            THEN calculate_tolerance_factor(old_mastery, task_score)
                            ELSE One
        new9        == ema_update(decayed6, target6, learning_rate, tolerance_factor)
        clamped9    == Clamp(new9, One * 100000)
    IN  [ task_score       |-> task_score,
          old_mastery      |-> old_mastery,
          new_mastery      |-> Round4(clamped9, tie_up),
          difficulty       |-> difficulty,
          difficulty_cap   |-> w_cap,
          learning_rate    |-> learning_rate,
          time_decay       |-> time_decay,
          tolerance_factor |-> tolerance_factor,
          algorithm        |-> IF use_enhanced THEN "enhanced_ema" ELSE "basic_ema" ]

\* ScoringEngine.calculate_new_mastery.  The products are exact: the decayed
\* baseline and the target at scale 10^6 (mastery in 1/10000 x factor in
\* hundredths; score in 1/10000 x cap in tenths x 10), the new mastery at
\* scale 10^9 (x learning rate in hundredths x tolerance in tenths).  tie_up
\* is not an argument of the source: see Round4.
calculate_new_mastery(old_mastery_in, task_score_in, difficulty, last_practice_time, use_enhanced, tie_up) ==
    LET old_mastery == Clamp(old_mastery_in, One)
        task_score  == Clamp(task_score_in, One)
        w_cap       == get_difficulty_cap(difficulty)
        target6     == Target6(task_score, w_cap)
        time_decay  == IF use_enhanced
                       THEN calculate_time_decay(last_practice_time)
                       ELSE One
        decayed6    == old_mastery * Hundredths(time_decay)
        learning_rate == IF use_enhanced
                         THEN get_adaptive_learning_rate(
                                  stage_baseline6(old_mastery, last_practice_time,
                                                  time_decay))
                         ELSE base_learning_rate
        tolerance_factor == IF use_enhanced
                            THEN calculate_tolerance_factor(old_mastery, task_score)
                            ELSE One
        new9        == ema_update(decayed6, target6, learning_rate, tolerance_factor)
        clamped9    == Clamp(new9, One * 100000)
    IN  [ task_score       |-> task_score,
          old_mastery      |-> old_mastery,
          new_mastery      |-> Round4(clamped9, tie_up),
          difficulty       |-> difficulty,
          difficulty_cap   |-> w_cap,
          learning_rate    |-> learning_rate,
          time_decay       |-> time_decay,
          tolerance_factor |-> tolerance_factor,
          algorithm        |-> IF use_enhanced THEN "enhanced_ema" ELSE "basic_ema" ]

\* ScoringResult.get_improvement
get_improvement(r) == r.new_mastery - r.old_mastery

----------------------------------------------------------------------------
(* ScoringEngine.determine_difficulty.  A text is the sequence of its      *)
(* characters, each a one-character string; a character outside ASCII is   *)
(* written as its code point.                                              *)

UpperCase == <<"A", "B", "C", "D", "E", "F", "G", "H", "I", "J", "K", "L", "M", "N", "O", "P", "Q", "R", "S", "T", "U", "V", "W", "X", "Y", "Z">>

LowerCase == <<"a", "b", "c", "d", "e", "f", "g", "h", "i", "j", "k", "l", "m", "n", "o", "p", "q", "r", "s", "t", "u", "v", "w", "x", "y", "z">>

\* str.lower, character by character.
lower(text) ==
    [ i \in DOMAIN text |->
        IF \E k \in DOMAIN UpperCase : UpperCase[k] = text[i]
        THEN LowerCase[CHOOSE k \in DOMAIN UpperCase : UpperCase[k] = text[i]]
        ELSE text[i] ]

\* keyword in text
contains(text, keyword) ==
    \E i \in 0..(Len(text) - Len(keyword)) :
        SubSeq(text, i + 1, i + Len(keyword)) = keyword

advanced_keywords ==
    << <<"U+5B9E", "U+73B0">>,
       <<"U+7F16", "U+5199">>,
       <<"U+8BBE", "U+8BA1">>,
       <<"U+4F18", "U+5316">>,
       <<"U+67B6", "U+6784">>,
       <<"U+7B97", "U+6CD5">>,
       <<"U+9879", "U+76EE">>,
       <<"U+7CFB", "U+7EDF">>,
       <<"U+5B8C", "U+6574">>,
       <<"U+624B", "U+5199">>,
       <<"i", "m", "p", "l", "e", "m", "e", "n", "t">>,
       <<"w", "r", "i", "t", "e">>,
       <<"d", "e", "s", "i", "g", "n">>,
       <<"o", "p", "t", "i", "m", "i", "z", "e">>,
       <<"a", "r", "c", "h", "i", "t", "e", "c", "t", "u", "r", "e">>,
       <<"a", "l", "g", "o", "r", "i", "t", "h", "m">>,
       <<"p", "r", "o", "j", "e", "c", "t">>,
       <<"s", "y", "s", "t", "e", "m">>,
       <<"c", "o", "m", "p", "l", "e", "t", "e">> >>

basic_keywords ==
    << <<"U+586B", "U+7A7A">>,
       <<"U+8865", "U+5168">>,
       <<"U+4FEE", "U+6539">>,
       <<"U+8C03", "U+8BD5">>,
       <<"U+4FEE", "U+590D">>,
       <<"f", "i", "l", "l">>,
       <<"c", "o", "m", "p", "l", "e", "t", "e">>,
       <<"m", "o", "d", "i", "f", "y">>,
       <<"d", "e", "b", "u", "g">>,
       <<"f", "i", "x">>,
       <<"U+4EE3", "U+7801">>,
       <<"c", "o", "d", "e">>,
       <<"U+51FD", "U+6570">>,
       <<"f", "u", "n", "c", "t", "i", "o", "n">> >>

\* for keyword in keywords: if keyword in text: return ...
RECURSIVE matches_any(_, _)
matches_any(keywords, text) ==
    IF keywords = <<>> THEN FALSE
    ELSE IF contains(text, Head(keywords)) THEN TRUE
    ELSE matches_any(Tail(keywords), text)

\* determine_difficulty with the basic keywords tried first.
determine_difficulty_BasicFirst(text) ==
    LET question_lower == lower(text)
    IN  IF matches_any(basic_keywords, question_lower) THEN "basic_code"
        ELSE IF matches_any(advanced_keywords, question_lower) THEN "advanced"
        ELSE "concept"

\* ScoringEngine.determine_difficulty(question_type)
determine_difficulty(text) ==
    LET question_lower == lower(text)
    IN  IF matches_any(advanced_keywords, question_lower) THEN "advanced"
        ELSE IF matches_any(basic_keywords, question_lower) THEN "basic_code"
        ELSE "concept"

----------------------------------------------------------------------------
(* agents/knowledge_graph_agent.py                                         *)
(* A graph is [nodes, edges]: nodes the sequence of node ids in the order  *)
(* of graph_data["nodes"], edges the sequence of [source, target] in the   *)
(* order of graph_data["edges"].                                           *)

Range(seq) == {seq[i] : i \in DOMAIN seq}

\* KnowledgeGraphAgent._validate_graph, for nodes and edges that carry all
\* their fields: every edge's source and target is a node id.
validate_graph(data) ==
    \A i \in DOMAIN data.edges :
        /\ data.edges[i].source \in Range(data.nodes)
        /\ data.edges[i].target \in Range(data.nodes)

\* graph[current] after the edge loop: the targets of the edges that leave
\* current, in edge order.
RECURSIVE Neighbors(_, _)
Neighbors(edges, current) ==
    IF edges = <<>> THEN <<>>
    ELSE IF Head(edges).source = current
         THEN <<Head(edges).target>> \o Neighbors(Tail(edges), current)
         ELSE Neighbors(Tail(edges), current)

\* in_degree after the edge loop: per node id, the number of edges into it.
InDegree(nodes, edges) ==
    [n \in Range(nodes) |-> Cardinality({i \in DOMAIN edges : edges[i].target = n})]

\* The node ids of in_degree with degree 0, in the dict's (insertion) order.
RECURSIVE ZeroDegree(_, _)
ZeroDegree(nodes, in_degree) ==
    IF nodes = <<>> THEN <<>>
    ELSE IF in_degree[Head(nodes)] = 0
         THEN <<Head(nodes)>> \o ZeroDegree(Tail(nodes), in_degree)
         ELSE ZeroDegree(Tail(nodes), in_degree)

\* The neighbour loop without "in_degree[neighbor] -= 1": a neighbour is
\* enqueued only if its in-degree is 0 as counted.
RECURSIVE Relax_NoDecrement(_, _, _)
Relax_NoDecrement(neighbors, in_degree, queue) ==
    IF neighbors = <<>> THEN [in_degree |-> in_degree, queue |-> queue]
    ELSE LET n == Head(neighbors)
         IN  Relax_NoDecrement(Tail(neighbors), in_degree,
                               IF in_degree[n] = 0 THEN Append(queue, n) ELSE queue)

\* for neighbor in graph[current]: in_degree[neighbor] -= 1, and the
\* neighbour is enqueued when that reaches 0.
RECURSIVE Relax(_, _, _)
Relax(neighbors, in_degree, queue) ==
    IF neighbors = <<>> THEN [in_degree |-> in_degree, queue |-> queue]
    ELSE LET n == Head(neighbors)
             d == [in_degree EXCEPT ![n] = @ - 1]
         IN  Relax(Tail(neighbors), d, IF d[n] = 0 THEN Append(queue, n) ELSE queue)

\* while queue: current = queue.popleft(); path.append(current); relax.
RECURSIVE Kahn(_, _, _, _)
Kahn(queue, path, in_degree, edges) ==
    IF queue = <<>> THEN path
    ELSE LET current == Head(queue)
             r == Relax(Neighbors(edges, current), in_degree, Tail(queue))
         IN  Kahn(r.queue, Append(path, current), r.in_degree, edges)

\* KnowledgeGraphAgent.get_learning_path.  in_degree[edge["target"]] += 1
\* raises KeyError for a target that is no node id; graph is a defaultdict,
\* so an unknown source raises nothing.
get_learning_path(data) ==
    IF \E i \in DOMAIN data.edges : data.edges[i].target \notin Range(data.nodes)
    THEN [status |-> "KeyError", path |-> <<>>]
    ELSE LET in_degree == InDegree(data.nodes, data.edges)
         IN  [status |-> "returned",
              path   |-> Kahn(ZeroDegree(data.nodes, in_degree), <<>>,
                              in_degree, data.edges)]

----------------------------------------------------------------------------
(* The resting values of each part, for the runs that do not move it.       *)

\* No call made yet.  ret is what update_mastery returned; add_knowledge_point
\* returns the point itself, knowledge_points[name], and ret is TRUE for it.
\* at is the clock tick of the call.
NoCall ==
    [ op |-> "none", name |-> "", target_mastery |-> 0, note |-> "",
      initial_mastery |-> 0, new_mastery |-> 0, score |-> 0, feedback |-> "",
      ret |-> FALSE, at |-> 0 ]

NoArgs ==
    [ old_mastery |-> 0, task_score |-> 0, difficulty |-> "concept",
      last_practice_time |-> NoPractice, use_enhanced |-> TRUE ]

NoResult ==
    [ task_score |-> 0, old_mastery |-> 0, new_mastery |-> 0,
      difficulty |-> "concept", difficulty_cap |-> 0, learning_rate |-> 0,
      time_decay |-> 0, tolerance_factor |-> 0, algorithm |-> "none" ]

IdleLedger ==
    /\ knowledge_points = EmptyMap
    /\ state_file = FALSE
    /\ file = [exists |-> FALSE, data |-> EmptyMap]
    /\ clock = 0
    /\ call = NoCall

IdleEstimate == args = NoArgs /\ result = NoResult

IdlePractice == mastery = 0 /\ tier = "concept" /\ practised = FALSE

NoPath == [status |-> "pending", path |-> <<>>]

IdleGraph == graph_data = [nodes |-> <<>>, edges |-> <<>>] /\ learning_path = NoPath

\* The callers that share one ledger.
Callers == {1, 2}

\* No EvaluationResult in hand.
NoEvaluation ==
    [ stage |-> "idle", name |-> "", score |-> 0, feedback |-> "",
      scoring_result |-> NoResult, mastery_achieved |-> FALSE ]

IdleSession == pending = [c \in Callers |-> NoEvaluation] /\ basis = EmptyMap

NotReloaded == [done |-> FALSE, knowledge_points |-> EmptyMap]

IdlePersist == reloaded = NotReloaded

NoDifficulty == "none"

IdleClassify == question_type = <<>> /\ classified = NoDifficulty

NoSummary == [total |-> -1, mastered |-> -1, average_mastery |-> -1]

IdleReport == created_with = EmptyMap /\ summary = NoSummary

----------------------------------------------------------------------------
(* The ledger as a state machine.                                          *)

\* LearnerState.__init__ with no state file yet on disk.
InitLedger ==
    /\ knowledge_points = EmptyMap
    /\ state_file \in BOOLEAN
    /\ file = [exists |-> FALSE, data |-> EmptyMap]
    /\ clock = 0
    /\ call = NoCall
    /\ IdleEstimate
    /\ IdlePractice
    /\ IdleGraph
    /\ IdleSession
    /\ IdlePersist
    /\ IdleClassify
    /\ IdleReport

\* LearnerState.add_knowledge_point(name, target_mastery, note, initial_mastery)
add_knowledge_point ==
    \E name \in Names, target_mastery \in Targets, note \in Notes,
       initial_mastery \in InitialMasteries :
        /\ clock < MaxOps
        /\ clock' = clock + 1
        /\ knowledge_points' =
               upsert(knowledge_points, name, target_mastery, note,
                      initial_mastery, clock')
        /\ file' = auto_save(knowledge_points', state_file, file)
        /\ call' = [NoCall EXCEPT !.op = "add_knowledge_point", !.name = name,
                        !.target_mastery = target_mastery, !.note = note,
                        !.initial_mastery = initial_mastery,
                        !.ret = TRUE, !.at = clock']
        /\ created_with' = IF name \in DOMAIN knowledge_points
                           THEN created_with
                           ELSE Put(created_with, name, initial_mastery)
        /\ UNCHANGED <<state_file, summary, estimateVars, practiceVars,
                       graphVars, sessionVars, persistVars, classifyVars>>

\* LearnerState.update_mastery(name, new_mastery, score, feedback)
update_mastery ==
    \E name \in Names, new_mastery \in NewMasteries, score \in TaskScores,
       feedback \in Feedbacks :
        LET r == record_update(knowledge_points, name, new_mastery, score,
                               feedback, clock + 1)
        IN  /\ clock < MaxOps
            /\ clock' = clock + 1
            /\ knowledge_points' = r.kps
            /\ file' = IF r.ret
                       THEN auto_save(knowledge_points', state_file, file)
                       ELSE file
            /\ call' = [NoCall EXCEPT !.op = "update_mastery", !.name = name,
                            !.new_mastery = new_mastery, !.score = score,
                            !.feedback = feedback, !.ret = r.ret, !.at = clock']
            /\ UNCHANGED <<state_file, estimateVars, practiceVars, graphVars,
                       sessionVars, persistVars, classifyVars, reportVars>>

NextLedger == add_knowledge_point \/ update_mastery

Spec == InitLedger /\ [][NextLedger]_vars

----------------------------------------------------------------------------
(* One call of the estimator on drawn arguments.                           *)

\* The longest gap since the last practice, in days.
MaxDays == 60

OldMasteries ==
    {-5000, 0, 1000, 1999, 2000, 3000, 3001, 4999, 5000, 6999, 7000, 7999,
     8000, 9000, 10000, 12000}
Scores == {-2000, 0, 3000, 4999, 5000, 8000, 8001, 9500, 10000, 15000}
Difficulties == TaskDifficulty \cup {"essay"}
PracticeTimes == {NoPractice} \cup {DaysAgo(d) : d \in -1..MaxDays}

InitEstimate ==
    /\ args \in [ old_mastery : OldMasteries, task_score : Scores,
                  difficulty : Difficulties, last_practice_time : PracticeTimes,
                  use_enhanced : BOOLEAN ]
    /\ result = NoResult
    /\ IdleLedger
    /\ IdlePractice
    /\ IdleGraph
    /\ IdleSession
    /\ IdlePersist
    /\ IdleClassify
    /\ IdleReport

\* scoring_engine.calculate_new_mastery(old_mastery, task_score, difficulty,
\* last_practice_time, use_enhanced)
calculate ==
    /\ result = NoResult
    /\ \E tie_up \in BOOLEAN :
           result' = calculate_new_mastery(args.old_mastery, args.task_score,
                                           args.difficulty, args.last_practice_time,
                                           args.use_enhanced, tie_up)
    /\ UNCHANGED <<args, ledgerVars, practiceVars, graphVars, sessionVars,
                   persistVars, classifyVars, reportVars>>

NextEstimate == calculate

SpecEstimate == InitEstimate /\ [][NextEstimate]_vars

----------------------------------------------------------------------------
(* Successive practice rounds on one knowledge point at one difficulty:    *)
(* EvaluationAgent.evaluate computes new_mastery from the stored mastery   *)
(* with the enhanced algorithm, update_learner_state stores it.            *)

StartMasteries == {0, 1000, 1999, 2000, 3000, 3999, 5000, 6999, 7000, 8000, 9999}
RoundScores == {0, 2000, 4900, 5000, 8000, 8100, 9500, 10000}
RoundGaps ==
    {NoPractice, DaysAgo(0), DaysAgo(forgetting_start_days + 1), DaysAgo(30),
     DaysAgo(MaxDays)}

InitPractice ==
    /\ tier \in TaskDifficulty
    /\ mastery \in {m \in StartMasteries : m < get_difficulty_cap(tier)}
    /\ practised = FALSE
    /\ IdleLedger
    /\ IdleEstimate
    /\ IdleGraph
    /\ IdleSession
    /\ IdlePersist
    /\ IdleClassify
    /\ IdleReport

practice_round ==
    \E task_score \in RoundScores, last_practice_time \in RoundGaps,
       tie_up \in BOOLEAN :
        /\ mastery' = calculate_new_mastery(mastery, task_score, tier,
                                            last_practice_time, TRUE, tie_up).new_mastery
        /\ practised' = TRUE
        /\ UNCHANGED <<tier, ledgerVars, estimateVars, graphVars, sessionVars,
                       persistVars, classifyVars, reportVars>>

NextPractice == practice_round

SpecPractice == InitPractice /\ [][NextPractice]_vars

----------------------------------------------------------------------------
(* The teaching loop answered perfectly: every round is advanced, scored   *)
(* 1.0 and practised without a gap; evaluate computes the new mastery from *)
(* the stored one and update_learner_state stores it.  The loop keeps      *)
(* taking rounds, which the fairness condition says.                       *)

InitMastery ==
    /\ tier = "advanced"
    /\ mastery \in 0..One
    /\ practised = FALSE
    /\ IdleLedger
    /\ IdleEstimate
    /\ IdleGraph
    /\ IdleSession
    /\ IdlePersist
    /\ IdleClassify
    /\ IdleReport

\* evaluation = self.evaluator.evaluate(...);
\* self.evaluator.update_learner_state(...)
perfect_round ==
    \E tie_up \in BOOLEAN :
        /\ result' = calculate_new_mastery(mastery, One, tier, NoPractice, TRUE, tie_up)
        /\ mastery' = result'.new_mastery
        /\ practised' = TRUE
        /\ UNCHANGED <<args, tier, ledgerVars, graphVars, sessionVars,
                       persistVars, classifyVars, reportVars>>

NextMastery == perfect_round

SpecMastery == InitMastery /\ [][NextMastery]_vars /\ WF_vars(perfect_round)

----------------------------------------------------------------------------
(* One call of get_learning_path on a drawn graph.                         *)

\* The most edges a drawn graph has.
MaxEdges == 2

NodeIds == {"A", "B", "C"}

\* The sequences that list each id of ids exactly once.
Orders(ids) ==
    {o \in [1..Cardinality(ids) -> ids] : \A i, j \in DOMAIN o : o[i] = o[j] => i = j}

NodeLists == UNION {Orders(ids) : ids \in SUBSET NodeIds}
Edges == [source : NodeIds, target : NodeIds]
EdgeLists == UNION {[1..k -> Edges] : k \in 0..MaxEdges}

InitGraph ==
    /\ graph_data \in [nodes : NodeLists, edges : EdgeLists]
    /\ learning_path = NoPath
    /\ IdleLedger
    /\ IdleEstimate
    /\ IdlePractice
    /\ IdleSession
    /\ IdlePersist
    /\ IdleClassify
    /\ IdleReport

\* learning_path = knowledge_graph.get_learning_path(graph_data)
learning_path_call ==
    /\ learning_path = NoPath
    /\ learning_path' = get_learning_path(graph_data)
    /\ UNCHANGED <<graph_data, ledgerVars, estimateVars, practiceVars, sessionVars,
                   persistVars, classifyVars, reportVars>>

NextGraph == learning_path_call

SpecGraph == InitGraph /\ [][NextGraph]_vars

----------------------------------------------------------------------------
(* The evaluate-then-record flow of agents/evaluation_agent.py: callers    *)
(* that share one ledger each evaluate an answer and then record it.       *)
(* Nothing in the source orders one caller's two steps against another's.  *)

\* Updates recorded in one run of the flow.
MaxRounds == 2

SessionMasteries == {0, 10000}
AiScores == {-2000, 3000, 15000}
AiFeedbacks == {"ok"}
QuestionTiers == {"concept", "advanced"}

\* The ledgers a state file of an earlier session holds: each name absent or
\* created with a mastery in [0,1] and not practised yet.
SessionLedgers ==
    UNION { [ns -> SessionMasteries] : ns \in SUBSET Names }

\* knowledge_point.get_last_practice_time(), which evaluate calls and
\* core/learner_state.py does not define: the answers the estimator's
\* last_practice_time parameter admits, no time or a time some days ago.
get_last_practice_time(knowledge_point) == {NoPractice, DaysAgo(30)}

\* LearnerState(state_file) on the state file of an earlier session.
InitSession ==
    /\ \E ms \in SessionLedgers :
           knowledge_points =
               [n \in DOMAIN ms |-> KnowledgePoint(n, ms[n], 8000, "", 0)]
    /\ state_file = TRUE
    /\ file = save(knowledge_points, TRUE, [exists |-> FALSE, data |-> EmptyMap])
    /\ clock = 0
    /\ call = NoCall
    /\ pending = [c \in Callers |-> NoEvaluation]
    /\ basis = [n \in DOMAIN knowledge_points |-> <<>>]
    /\ IdleEstimate
    /\ IdlePractice
    /\ IdleGraph
    /\ IdlePersist
    /\ IdleClassify
    /\ IdleReport

\* The callers holding a result not yet recorded.  The run starts only the
\* evaluations it can still record.
InHand == {c \in Callers : pending[c] # NoEvaluation}

\* evaluation_agent.evaluate(knowledge_point, question, answer, question_type)
\* by one caller: the AI's score and feedback, the difficulty of the question,
\* the estimator on the mastery the point holds now.
evaluate ==
    \E c \in Callers, name \in DOMAIN knowledge_points, score \in AiScores,
       feedback \in AiFeedbacks, difficulty \in QuestionTiers,
       tie_up \in BOOLEAN :
        LET knowledge_point == knowledge_points[name]
        IN  \E last_practice_time \in get_last_practice_time(knowledge_point) :
                LET scoring_result ==
                        calculate_new_mastery(knowledge_point.actual_mastery,
                                              score, difficulty,
                                              last_practice_time, TRUE, tie_up)
                IN  /\ pending[c] = NoEvaluation
                    /\ clock + Cardinality(InHand) < MaxRounds
                    /\ pending' =
                         [pending EXCEPT ![c] =
                            [ stage |-> "evaluated", name |-> name,
                              score |-> score, feedback |-> feedback,
                              scoring_result |-> scoring_result,
                              mastery_achieved |->
                                  scoring_result.new_mastery
                                      >= knowledge_point.target_mastery ]]
                    /\ UNCHANGED <<ledgerVars, basis, estimateVars,
                                   practiceVars, graphVars, persistVars,
                                   classifyVars, reportVars>>

\* evaluation_agent.update_learner_state(learner_state, name, evaluation_result)
\* by the caller holding the result (scoring_result is never None after
\* evaluate).
update_learner_state ==
    \E c \in Callers :
        LET evaluation_result == pending[c]
            name == evaluation_result.name
            r == record_update(knowledge_points, name,
                               evaluation_result.scoring_result.new_mastery,
                               evaluation_result.score,
                               evaluation_result.feedback, clock + 1)
        IN  /\ evaluation_result.stage = "evaluated"
            /\ clock < MaxRounds
            /\ clock' = clock + 1
            /\ knowledge_points' = r.kps
            /\ file' = IF r.ret
                       THEN auto_save(knowledge_points', state_file, file)
                       ELSE file
            /\ call' = [NoCall EXCEPT !.op = "update_mastery", !.name = name,
                            !.new_mastery =
                                evaluation_result.scoring_result.new_mastery,
                            !.score = evaluation_result.score,
                            !.feedback = evaluation_result.feedback,
                            !.ret = r.ret, !.at = clock']
            /\ basis' = IF r.ret
                        THEN [basis EXCEPT ![name] =
                                Append(@, evaluation_result.scoring_result.old_mastery)]
                        ELSE basis
            /\ pending' = [pending EXCEPT ![c] = NoEvaluation]
            /\ UNCHANGED <<state_file, estimateVars, practiceVars, graphVars,
                           persistVars, classifyVars, reportVars>>

NextSession == evaluate \/ update_learner_state

SpecSession == InitSession /\ [][NextSession]_vars

----------------------------------------------------------------------------
(* Saving a ledger and constructing a new LearnerState on the file.        *)

\* Ledger calls behind the ledger that is saved.
MaxSaved == 2

\* The ledgers that k add_knowledge_point / update_mastery calls or fewer
\* leave, the k-th call made at time k.
RECURSIVE LedgersAfter(_)
LedgersAfter(k) ==
    IF k = 0
    THEN {EmptyMap}
    ELSE LET before == LedgersAfter(k - 1)
         IN  before
               \cup { upsert(kps, name, target_mastery, note, initial_mastery, k) :
                        kps \in before, name \in Names, target_mastery \in Targets,
                        note \in Notes, initial_mastery \in InitialMasteries }
               \cup { record_update(kps, name, new_mastery, score, feedback, k).kps :
                        kps \in before, name \in Names,
                        new_mastery \in NewMasteries, score \in TaskScores,
                        feedback \in Feedbacks }

\* A LearnerState after some ledger calls, its state file as they left it.
InitPersist ==
    /\ knowledge_points \in LedgersAfter(MaxSaved)
    /\ state_file \in BOOLEAN
    /\ file = auto_save(knowledge_points, state_file,
                        [exists |-> FALSE, data |-> EmptyMap])
    /\ clock = MaxSaved
    /\ call = NoCall
    /\ reloaded = NotReloaded
    /\ IdleClassify
    /\ IdleReport
    /\ IdleEstimate
    /\ IdlePractice
    /\ IdleGraph
    /\ IdleSession

\* learner_state.save()
save_call ==
    /\ ~reloaded.done
    /\ call.op # "save"
    /\ file' = save(knowledge_points, state_file, file)
    /\ call' = [NoCall EXCEPT !.op = "save", !.at = clock]
    /\ UNCHANGED <<knowledge_points, state_file, clock, reloaded, estimateVars,
                   practiceVars, graphVars, sessionVars,
                   classifyVars, reportVars>>

\* LearnerState(state_file): a new instance, loaded when the file exists.
restart ==
    /\ ~reloaded.done
    /\ reloaded' =
           [ done |-> TRUE,
             knowledge_points |-> IF state_file /\ file.exists
                                  THEN load(file)
                                  ELSE EmptyMap ]
    /\ UNCHANGED <<ledgerVars, estimateVars, practiceVars, graphVars,
                   sessionVars, classifyVars, reportVars>>

NextPersist == save_call \/ restart

SpecPersist == InitPersist /\ [][NextPersist]_vars

----------------------------------------------------------------------------
(* One call of determine_difficulty on a drawn text.                       *)

\* The most fragments a drawn text is made of.
MaxFragments == 3

\* Pieces of question texts: keywords in either case, parts of keywords that
\* join into one across a seam, and text with no keyword.
Fragments ==
    { <<"I", "m", "p", "l", "e", "m", "e", "n", "t">>,
      <<"f", "i", "x">>,
      <<"p", "r", "e">>,
      <<"w", "r", "i">>,
      <<"t", "e", " ">>,
      <<"C", "O", "M", "P", "L", "E", "T", "E">>,
      <<"U+5B9E", "U+73B0">>,
      <<"U+4EE3", "U+7801">> }

RECURSIVE Texts(_)
Texts(k) ==
    IF k = 0 THEN {<<>>}
    ELSE LET shorter == Texts(k - 1)
         IN  shorter \cup {t \o f : t \in shorter, f \in Fragments}

InitClassify ==
    /\ question_type \in Texts(MaxFragments)
    /\ classified = NoDifficulty
    /\ created_with = EmptyMap
    /\ summary = NoSummary
    /\ IdleLedger
    /\ IdleEstimate
    /\ IdlePractice
    /\ IdleGraph
    /\ IdleSession
    /\ reloaded = NotReloaded

\* difficulty = scoring_engine.determine_difficulty(question_type)
classify ==
    /\ classified = NoDifficulty
    /\ classified' = determine_difficulty(question_type)
    /\ UNCHANGED <<question_type, ledgerVars, estimateVars, practiceVars,
                   graphVars, sessionVars, persistVars, reportVars>>

NextClassify == classify

SpecClassify == InitClassify /\ [][NextClassify]_vars

----------------------------------------------------------------------------
(* One call of get_progress_summary on a ledger of tracked points.         *)

\* The most points the summarised ledger tracks.
MaxTracked == 3

TrackedNames == <<"loops", "recursion", "graphs", "trees">>
TrackedMasteries == {0, 2356, 8000, 8554, 10000}

\* A point as add_knowledge_point creates it, or none under that name.
TrackedPoints(name) ==
    { KnowledgePoint(name, actual_mastery, target_mastery, "", 0) :
        actual_mastery \in TrackedMasteries, target_mastery \in Targets }

\* The ledgers that track some of the first k names.
RECURSIVE TrackedLedgers(_)
TrackedLedgers(k) ==
    IF k = 0 THEN {EmptyMap}
    ELSE LET fewer == TrackedLedgers(k - 1)
         IN  fewer \cup { Put(kps, TrackedNames[k], kp) :
                            kps \in fewer, kp \in TrackedPoints(TrackedNames[k]) }

InitSummary ==
    /\ knowledge_points \in TrackedLedgers(MaxTracked)
    /\ state_file = FALSE
    /\ file = [exists |-> FALSE, data |-> EmptyMap]
    /\ clock = 0
    /\ call = NoCall
    /\ IdleReport
    /\ IdleClassify
    /\ IdleEstimate
    /\ IdlePractice
    /\ IdleGraph
    /\ IdleSession
    /\ IdlePersist

\* summary = self.learner_state.get_progress_summary()
progress_summary ==
    /\ summary = NoSummary
    /\ \E tie_up \in BOOLEAN :
           summary' = get_progress_summary(knowledge_points, tie_up)
    /\ UNCHANGED <<created_with, ledgerVars, estimateVars, practiceVars,
                   graphVars, sessionVars, persistVars, classifyVars>>

NextSummary == progress_summary

SpecSummary == InitSummary /\ [][NextSummary]_vars

----------------------------------------------------------------------------
(* Claims about the evaluate-then-record flow.                             *)

\* C11: in every state of the flow (points created with a mastery in [0,1],
\* every change of mastery an update_mastery with the new_mastery that
\* calculate_new_mastery returned), every tracked point's actual_mastery lies
\* in [0,1].
C11_LedgerMasteryInUnitInterval ==
    \A n \in DOMAIN knowledge_points :
        /\ knowledge_points[n].actual_mastery >= 0
        /\ knowledge_points[n].actual_mastery <= One

\* C11's case: two results have been recorded on one point, the last from a
\* score above 1 that left the mastery at 1, the one before from a score
\* below 0.
C11_Witness ==
    \E n \in DOMAIN knowledge_points :
        LET h == knowledge_points[n].history
        IN  /\ Len(h) = 2
            /\ h[1].score < 0
            /\ h[2].score > One
            /\ h[2].old_mastery < h[2].new_mastery
            /\ knowledge_points[n].actual_mastery = h[2].new_mastery

\* C12: when two callers run evaluate and then update_mastery on one name,
\* no interleaving loses an update: every recorded history entry's
\* new_mastery was computed from the mastery the entry records as
\* old_mastery.
C12_NoLostUpdate ==
    \A n \in DOMAIN knowledge_points :
        \A i \in DOMAIN knowledge_points[n].history :
            basis[n][i] = knowledge_points[n].history[i].old_mastery

\* C13: save followed by load round-trips the ledger: a new LearnerState
\* loaded from the file that save() wrote holds the same names and, for each
\* name, equal actual_mastery, target_mastery, note, history (same length and
\* entries), created_at and updated_at.
C13_SaveLoadRoundTrip ==
    (reloaded.done /\ state_file /\ call.op = "save") =>
        /\ DOMAIN reloaded.knowledge_points = DOMAIN knowledge_points
        /\ \A n \in DOMAIN knowledge_points :
              LET kp == knowledge_points[n]
                  re == reloaded.knowledge_points[n]
              IN  /\ re.actual_mastery = kp.actual_mastery
                  /\ re.target_mastery = kp.target_mastery
                  /\ re.note = kp.note
                  /\ Len(re.history) = Len(kp.history)
                  /\ \A i \in DOMAIN kp.history : re.history[i] = kp.history[i]
                  /\ re.created_at = kp.created_at
                  /\ re.updated_at = kp.updated_at

\* C13's case: a ledger holding a point with a note and a recorded update has
\* been saved and a new LearnerState loaded from the file.
C13_Witness ==
    /\ reloaded.done /\ state_file /\ call.op = "save" /\ file.exists
    /\ \E n \in DOMAIN reloaded.knowledge_points :
          /\ Len(reloaded.knowledge_points[n].history) = 1
          /\ reloaded.knowledge_points[n].note # ""
          /\ reloaded.knowledge_points[n].actual_mastery = 2500

----------------------------------------------------------------------------
(* Claims about the estimator.                                             *)

\* C1: for every drawn old_mastery and task_score (inside or outside [0,1]),
\* every difficulty (an unrecognised one included), every gap since the last
\* practice (or none) and both modes, calculate_new_mastery returns (the call
\* is enabled on every argument record) and its new_mastery lies in [0,1].
C1_NewMasteryInUnitInterval ==
    /\ result = NoResult => ENABLED calculate
    /\ result # NoResult => result.new_mastery >= 0 /\ result.new_mastery <= One

\* C1's case: a call on a mastery above 1, a score below 0, an unrecognised
\* difficulty and the longest gap has returned, the mastery clamped to 1 and
\* the new mastery below it.
C1_Witness ==
    /\ result # NoResult
    /\ args.old_mastery > One
    /\ args.task_score < 0
    /\ args.difficulty \notin TaskDifficulty
    /\ args.last_practice_time = DaysAgo(MaxDays)
    /\ result.old_mastery = One
    /\ result.new_mastery < One

\* C2: from a start below the cap of the difficulty, after any number of
\* enhanced rounds at that difficulty the stored mastery never exceeds the cap.
C2_NeverAboveCap == mastery <= get_difficulty_cap(tier)

\* C2's case: rounds have been recorded and the mastery stands one step
\* (1/10000) below the cap.
C2_Witness == practised /\ mastery + 1 = get_difficulty_cap(tier)

----------------------------------------------------------------------------
(* Claims about the learning path.                                         *)

Position(seq, x) == CHOOSE i \in DOMAIN seq : seq[i] = x

\* o lists every node of data once and puts every edge's source before its target.
IsTopologicalOrder(o, data) ==
    /\ o \in Orders(Range(data.nodes))
    /\ \A i \in DOMAIN data.edges :
           Position(o, data.edges[i].source) < Position(o, data.edges[i].target)

\* The edges of data join nodes of data and have no cycle: some order of the
\* nodes puts every source before its target.
IsDag(data) ==
    /\ validate_graph(data)
    /\ \E o \in Orders(Range(data.nodes)) : IsTopologicalOrder(o, data)

\* C3: on a graph whose edges form a DAG over its nodes, get_learning_path
\* returns every node id exactly once with every edge's source before its
\* target; for nodes {A,B,C} and edges (A,B),(B,C) it returns exactly [A,B,C].
C3_DagGivesTopologicalOrder ==
    (learning_path # NoPath /\ IsDag(graph_data)) =>
        /\ learning_path.status = "returned"
        /\ IsTopologicalOrder(learning_path.path, graph_data)
        /\ (/\ Range(graph_data.nodes) = {"A", "B", "C"}
            /\ graph_data.edges = << [source |-> "A", target |-> "B"],
                                     [source |-> "B", target |-> "C"] >>)
              => learning_path.path = <<"A", "B", "C">>

\* C3's case: the path of nodes C, B, A (listed in that order) with edges
\* (A,B),(B,C) has been returned.
C3_Witness ==
    /\ graph_data.nodes = <<"C", "B", "A">>
    /\ graph_data.edges = << [source |-> "A", target |-> "B"],
                             [source |-> "B", target |-> "C"] >>
    /\ learning_path.status = "returned"
    /\ learning_path.path = <<"A", "B", "C">>

\* C4: when the edges (all between nodes of the graph) contain a cycle,
\* get_learning_path reports it: it does not return an ordinary path.
C4_CycleReported ==
    (learning_path # NoPath /\ validate_graph(graph_data) /\ ~IsDag(graph_data)) =>
        learning_path.status # "returned"

\* C5: an edge whose source or whose target is no node of the graph is
\* reported by get_learning_path: it does not return an ordinary path.
C5_UnknownNodeReported ==
    (learning_path # NoPath /\ ~validate_graph(graph_data)) =>
        learning_path.status # "returned"

----------------------------------------------------------------------------
(* Claims about the ledger.  A step of the ledger is one call: call' holds *)
(* its arguments and what it returned, the unprimed variables the ledger   *)
(* before it.                                                              *)

\* The step is update_mastery on a name the ledger does not hold.
UpdateOfUnknown ==
    call'.op = "update_mastery" /\ call'.name \notin DOMAIN knowledge_points

\* The step is update_mastery on a name the ledger holds.
UpdateOfTracked ==
    call'.op = "update_mastery" /\ call'.name \in DOMAIN knowledge_points

\* The step is add_knowledge_point on a name the ledger holds.
UpsertOfTracked ==
    call'.op = "add_knowledge_point" /\ call'.name \in DOMAIN knowledge_points

\* Every point but name is what it was, and no name came or went.
OthersUnchanged(name) ==
    /\ DOMAIN knowledge_points' = DOMAIN knowledge_points
    /\ \A n \in DOMAIN knowledge_points \ {name} :
           knowledge_points'[n] = knowledge_points[n]

\* C6: update_mastery on a name that is not in the ledger returns False and
\* leaves the ledger as it was: the same names, and every point's mastery,
\* target, note and history unchanged.
C6_UnknownNameLeavesLedger ==
    [][ UpdateOfUnknown =>
            /\ call'.ret = FALSE
            /\ knowledge_points' = knowledge_points ]_vars

\* C6's case: update_mastery has returned False for an untracked name while
\* another point, with history, is tracked.
C6_Witness ==
    /\ call.op = "update_mastery"
    /\ call.ret = FALSE
    /\ call.name \notin DOMAIN knowledge_points
    /\ \E n \in DOMAIN knowledge_points : Len(knowledge_points[n].history) = 1

\* C7: update_mastery on a tracked name returns True, appends exactly one
\* history entry (old_mastery the mastery before the call; new_mastery, score
\* and feedback the arguments), sets the mastery to new_mastery and changes no
\* other point.
C7_UpdateRecordsOneEntry ==
    [][ UpdateOfTracked =>
            LET before == knowledge_points[call'.name]
                after  == knowledge_points'[call'.name]
                entry  == after.history[Len(after.history)]
            IN  /\ call'.ret = TRUE
                /\ Len(after.history) = Len(before.history) + 1
                /\ SubSeq(after.history, 1, Len(before.history)) = before.history
                /\ entry.old_mastery = before.actual_mastery
                /\ entry.new_mastery = call'.new_mastery
                /\ entry.score = call'.score
                /\ entry.feedback = call'.feedback
                /\ after.actual_mastery = call'.new_mastery
                /\ OthersUnchanged(call'.name) ]_vars

\* C7's case: update_mastery has returned True on a point created with
\* mastery 0.3 while a second point is tracked.
C7_Witness ==
    /\ call.op = "update_mastery"
    /\ call.ret = TRUE
    /\ Cardinality(DOMAIN knowledge_points) = 2
    /\ knowledge_points[call.name].history[1].old_mastery = 3000
    /\ knowledge_points[call.name].actual_mastery = 9000

\* C8: add_knowledge_point on a name already in the ledger leaves that
\* point's actual_mastery and history unchanged whatever initial_mastery is
\* passed, and leaves every other point unchanged.
C8_UpsertKeepsMastery ==
    [][ UpsertOfTracked =>
            /\ knowledge_points'[call'.name].actual_mastery
                   = knowledge_points[call'.name].actual_mastery
            /\ knowledge_points'[call'.name].history
                   = knowledge_points[call'.name].history
            /\ OthersUnchanged(call'.name) ]_vars

\* C8's case: add_knowledge_point has been called on a point created earlier
\* and updated since, with an initial_mastery that is not the point's mastery.
C8_Witness ==
    /\ call.op = "add_knowledge_point"
    /\ call.name \in DOMAIN knowledge_points
    /\ knowledge_points[call.name].created_at < call.at
    /\ Len(knowledge_points[call.name].history) = 1
    /\ call.initial_mastery # knowledge_points[call.name].actual_mastery

\* C9 as claimed: add_knowledge_point on a name already in the ledger leaves
\* the point's target equal to the passed target and its note equal to the
\* passed note, for every passed note, the empty string included.
C9_UpsertSetsTargetAndNote ==
    [][ UpsertOfTracked =>
            /\ knowledge_points'[call'.name].target_mastery = call'.target_mastery
            /\ knowledge_points'[call'.name].note = call'.note ]_vars

\* C9 as amended: add_knowledge_point on a name already in the ledger leaves
\* the point's target equal to the passed target; its note equal to the
\* passed note when that is not the empty string, and unchanged when it is.
C9_UpsertSetsTargetAndGivenNote ==
    [][ UpsertOfTracked =>
            /\ knowledge_points'[call'.name].target_mastery = call'.target_mastery
            /\ knowledge_points'[call'.name].note
                   = IF call'.note # "" THEN call'.note
                     ELSE knowledge_points[call'.name].note ]_vars

\* C9's case: add_knowledge_point with an empty note has been called on a
\* point created earlier with a note and another target; the note stands and
\* the target is the passed one.
C9_Witness ==
    /\ call.op = "add_knowledge_point"
    /\ call.name \in DOMAIN knowledge_points
    /\ knowledge_points[call.name].created_at < call.at
    /\ call.note = ""
    /\ knowledge_points[call.name].note = "n1"
    /\ call.target_mastery = 6000
    /\ knowledge_points[call.name].target_mastery = 6000
    /\ clock = 2

\* C10: across add_knowledge_point and update_mastery calls no tracked name
\* is dropped, no history gets shorter, no recorded entry is altered, and a
\* point's mastery changes only in a step that appends to its history.
C10_HistoryAppendOnly ==
    [][ /\ DOMAIN knowledge_points \subseteq DOMAIN knowledge_points'
        /\ \A n \in DOMAIN knowledge_points :
               LET before == knowledge_points[n]
                   after  == knowledge_points'[n]
               IN  /\ Len(after.history) >= Len(before.history)
                   /\ SubSeq(after.history, 1, Len(before.history)) = before.history
                   /\ after.actual_mastery # before.actual_mastery
                          => Len(after.history) = Len(before.history) + 1 ]_vars

\* C10's case: a point has two history entries, the second recorded after
\* the first, and its mastery has changed twice.
C10_Witness ==
    \E n \in DOMAIN knowledge_points :
        LET h == knowledge_points[n].history
        IN  /\ Len(h) = 2
            /\ h[1].new_mastery # h[1].old_mastery
            /\ h[2].new_mastery # h[2].old_mastery
            /\ h[2].old_mastery = h[1].new_mastery

----------------------------------------------------------------------------
(* Claims about the laws of the estimator.                                 *)

\* The enhanced update of calculate_new_mastery with the tolerance factor
\* given instead of computed: same clamped inputs, same time decay, same
\* adaptive rate of the decayed baseline; the clamped value at scale 10^9.
enhanced_with_tolerance(a, task_score_in, tolerance_factor) ==
    LET old_mastery == Clamp(a.old_mastery, One)
        task_score  == Clamp(task_score_in, One)
        time_decay  == calculate_time_decay(a.last_practice_time)
        decayed6    == old_mastery * Hundredths(time_decay)
        target6     == Target6(task_score, get_difficulty_cap(a.difficulty))
        learning_rate ==
            get_adaptive_learning_rate(
                stage_baseline6(old_mastery, a.last_practice_time, time_decay))
    IN  Clamp(ema_update(decayed6, target6, learning_rate, tolerance_factor),
              One * 100000)

\* The scores a call is compared at.
ComparedScores == Scores \cup {500 * k : k \in 0..20}

\* The second call of a comparison: the arguments a with another score.
with_score(a, task_score, tie_up) ==
    calculate_new_mastery(a.old_mastery, task_score, a.difficulty,
                          a.last_practice_time, a.use_enhanced, tie_up)

\* C14: with the old mastery, the difficulty and the time decay the same, and
\* the tolerance factor the same, the enhanced new_mastery does not decrease
\* when the score rises within [0,1]: between two calls whose scores get the
\* same factor, and in the update formula at each fixed factor.
C14_MonotoneInScore ==
    (result # NoResult /\ args.use_enhanced
       /\ args.task_score >= 0 /\ args.task_score <= One) =>
        \A s2 \in ComparedScores :
            (s2 > args.task_score /\ s2 <= One) =>
                /\ calculate_tolerance_factor(result.old_mastery, s2)
                       = result.tolerance_factor
                     => \A tie_up \in BOOLEAN :
                            with_score(args, s2, tie_up).new_mastery
                                >= result.new_mastery
                /\ \A gamma \in {slip_protection, guess_dampening, One} :
                       enhanced_with_tolerance(args, s2, gamma)
                           >= enhanced_with_tolerance(args, args.task_score, gamma)

\* C14's case: a call at mastery 0.9 and score 0.3 (slip protection) has
\* returned, and the score 0.4999, protected alike, gives a strictly higher
\* new mastery.
C14_Witness ==
    /\ result # NoResult /\ args.use_enhanced
    /\ args.old_mastery = 9000 /\ args.task_score = 3000
    /\ result.tolerance_factor = slip_protection
    /\ calculate_tolerance_factor(result.old_mastery, 4999) = slip_protection
    /\ with_score(args, 4999, TRUE).new_mastery > result.new_mastery

\* C15: in enhanced mode at old mastery 0.9, difficulty advanced, score 0.3
\* and no time decay, the mastery falls, and by exactly half of what the
\* same update (same rate, same decay) gives with the tolerance factor 1:
\* 0.045 against 0.09.
C15_SlipHalvesTheDecrease ==
    (result # NoResult /\ args.use_enhanced /\ args.old_mastery = 9000
       /\ args.task_score = 3000 /\ args.difficulty = "advanced"
       /\ result.time_decay = One) =>
        /\ result.new_mastery < result.old_mastery
        /\ \A tie_up \in BOOLEAN :
              2 * (result.old_mastery - result.new_mastery)
                  = result.old_mastery
                      - Round4(enhanced_with_tolerance(args, args.task_score, One),
                               tie_up)
        /\ result.old_mastery - result.new_mastery = 450

\* C15's case: that call, made on a point practised 7 days ago, has returned
\* with the slip-protection factor and the mastery 0.855.
C15_Witness ==
    /\ result # NoResult /\ args.use_enhanced
    /\ args.old_mastery = 9000 /\ args.task_score = 3000
    /\ args.difficulty = "advanced"
    /\ args.last_practice_time = DaysAgo(7)
    /\ result.tolerance_factor = slip_protection
    /\ result.new_mastery = 8550

\* The legacy call on the arguments a.
legacy_call(a, tie_up) ==
    calculate_new_mastery(a.old_mastery, a.task_score, a.difficulty,
                          a.last_practice_time, FALSE, tie_up)

\* An enhanced call has returned under the slip conditions: mastery at least
\* 0.7, score below 0.5, no time decay.
SlipCall ==
    /\ result # NoResult /\ args.use_enhanced
    /\ result.old_mastery >= 7000 /\ result.task_score < 5000
    /\ result.time_decay = One

\* C16: whenever the slip conditions hold (old mastery at least 0.7, score
\* below 0.5, no time decay), the change of mastery with use_enhanced=True is
\* 0.5 times the change for the same inputs with use_enhanced=False.
C16_EnhancedIsHalfOfLegacy ==
    SlipCall =>
        \A tie_up \in BOOLEAN :
            2 * (result.new_mastery - result.old_mastery)
                = legacy_call(args, tie_up).new_mastery - result.old_mastery

\* C16 as the code has it: under the slip conditions the enhanced change is
\* 0.5 x (staged rate / base rate) times the legacy change, each result
\* rounded to 4 digits (so 2 x 0.3 x enhanced and rate x legacy differ by at
\* most half a unit of each rounding), the staged rate 0.25 for a mastery in
\* [0.7, 0.8) and 0.15 from 0.8, the base rate 0.3.  At 0.9, advanced, 0.3
\* the enhanced change is -0.045 and the legacy change -0.18.
C16_EnhancedToLegacyByRates ==
    SlipCall =>
        \A tie_up \in BOOLEAN :
            LET e == result.new_mastery - result.old_mastery
                l == legacy_call(args, tie_up).new_mastery - result.old_mastery
                rate == IF result.old_mastery >= 8000 THEN 1500 ELSE 2500
                d == 2 * 3000 * e - rate * l
            IN  /\ d <= 3000 + rate \div 2
                /\ -d <= 3000 + rate \div 2
                /\ e < 0 /\ l < e
                /\ (args.old_mastery = 9000 /\ args.task_score = 3000
                      /\ args.difficulty = "advanced")
                     => (e = -450 /\ l = -1800)

\* C16's case: the enhanced call at 0.9, advanced, 0.3 with no practice time
\* has returned 0.855, and the legacy call on the same arguments gives 0.72.
C16_Witness ==
    /\ SlipCall
    /\ args.old_mastery = 9000 /\ args.task_score = 3000
    /\ args.difficulty = "advanced" /\ args.last_practice_time = NoPractice
    /\ result.new_mastery = 8550
    /\ legacy_call(args, TRUE).new_mastery = 7200

\* C17: at old mastery 0.1 and score 0.95 with no time decay, in enhanced
\* mode and for every difficulty, the mastery rises, and by exactly 0.6 times
\* what the same update (same rate, same decay) gives with the tolerance
\* factor 1.
C17_GuessDampensTheIncrease ==
    (result # NoResult /\ args.use_enhanced /\ args.old_mastery = 1000
       /\ args.task_score = 9500 /\ result.time_decay = One) =>
        /\ result.new_mastery > result.old_mastery
        /\ \A tie_up \in BOOLEAN :
              10 * (result.new_mastery - result.old_mastery)
                  = 6 * (Round4(enhanced_with_tolerance(args, args.task_score, One),
                                tie_up)
                           - result.old_mastery)

\* C17's case: that call has returned at each of the three difficulties (and
\* at an unrecognised one), here at basic_code with the mastery 0.2356.
C17_Witness ==
    /\ result # NoResult /\ args.use_enhanced
    /\ args.old_mastery = 1000 /\ args.task_score = 9500
    /\ args.difficulty = "basic_code" /\ result.time_decay = One
    /\ result.tolerance_factor = guess_dampening
    /\ result.new_mastery = 2356

\* C18: the time-decay factor by whole elapsed days d: 1.0 with no last
\* practice time or d <= 7; max(0.1, 1 - 0.02 (d - 7)) for d > 7; exactly 1.0
\* at d = 7 and 0.98 at d = 8.
C18_TimeDecayValues ==
    (result # NoResult /\ args.use_enhanced) =>
        LET t == args.last_practice_time
            linear == 10000 - 200 * (t.days - 7)
        IN  /\ (~t.given \/ t.days <= 7) => result.time_decay = 10000
            /\ (t.given /\ t.days > 7) =>
                  result.time_decay = (IF linear > 1000 THEN linear ELSE 1000)
            /\ t = DaysAgo(7) => result.time_decay = 10000
            /\ t = DaysAgo(8) => result.time_decay = 9800

\* C18's case: an enhanced call on a point practised 8 days ago has returned
\* with the factor 0.98.
C18_Witness ==
    /\ result # NoResult /\ args.use_enhanced
    /\ args.last_practice_time = DaysAgo(8)
    /\ result.time_decay = 9800

\* C19: the factor does not rise with the elapsed days (d >= 0): every longer
\* gap gives a factor no larger; it lies in [0.1, 1.0]; so the decayed
\* baseline old_mastery x factor is at least 0.1 x old_mastery, and above
\* zero for an old mastery above zero.
C19_TimeDecayMonotoneAndBounded ==
    (result # NoResult /\ args.use_enhanced) =>
        /\ result.time_decay >= 1000 /\ result.time_decay <= 10000
        /\ (args.last_practice_time.given /\ args.last_practice_time.days >= 0) =>
              \A d2 \in args.last_practice_time.days..MaxDays :
                  calculate_time_decay(DaysAgo(d2)) <= result.time_decay
        /\ result.old_mastery * result.time_decay >= result.old_mastery * 1000
        /\ result.old_mastery > 0 => result.old_mastery * result.time_decay > 0

\* C19's case: an enhanced call on a mastered point left for the longest gap
\* has returned with the factor at its floor 0.1, below the factor of a
\* shorter gap.
C19_Witness ==
    /\ result # NoResult /\ args.use_enhanced
    /\ args.last_practice_time = DaysAgo(MaxDays)
    /\ result.old_mastery = One
    /\ result.time_decay = 1000
    /\ calculate_time_decay(DaysAgo(30)) > result.time_decay

\* C20: legacy mode (use_enhanced=False) computes clamp(A0 + 0.3 (S x cap -
\* A0)) on the clamped inputs, rounded to 4 digits, with the one base rate
\* whatever the old mastery; it reports learning_rate 0.3, time_decay 1.0 and
\* tolerance_factor 1.0; and the elapsed time has no effect on what it
\* returns.
C20_LegacyMode ==
    (result # NoResult /\ ~args.use_enhanced) =>
        LET x9 == result.old_mastery * 100000
                    + 3 * (result.task_score * result.difficulty_cap
                             - result.old_mastery * 10000)
            c9 == IF x9 < 0 THEN 0
                  ELSE IF x9 > 1000000000 THEN 1000000000 ELSE x9
            off == result.new_mastery * 100000 - c9
        IN  /\ result.learning_rate = 3000
            /\ result.time_decay = 10000
            /\ result.tolerance_factor = 10000
            /\ result.algorithm = "basic_ema"
            /\ off <= 50000 /\ -off <= 50000
            /\ \A tie_up \in BOOLEAN :
                  calculate_new_mastery(args.old_mastery, args.task_score,
                                        args.difficulty, NoPractice, FALSE, tie_up)
                    = calculate_new_mastery(args.old_mastery, args.task_score,
                                            args.difficulty,
                                            args.last_practice_time, FALSE, tie_up)

\* C20's case: a legacy call at mastery 0.9, advanced, score 0.3 on a point
\* left for the longest gap has returned 0.72, the value with no gap at all.
C20_Witness ==
    /\ result # NoResult /\ ~args.use_enhanced
    /\ args.old_mastery = 9000 /\ args.task_score = 3000
    /\ args.difficulty = "advanced"
    /\ args.last_practice_time = DaysAgo(MaxDays)
    /\ result.new_mastery = 7200
    /\ result.learning_rate = base_learning_rate

----------------------------------------------------------------------------
(* Claims about the difficulty of a question.                              *)

\* Some keyword of the list occurs in the text, character for character.
HasKeyword(keywords, text) ==
    \E k \in DOMAIN keywords :
        \E i \in 1..Len(text) :
            /\ i + Len(keywords[k]) - 1 <= Len(text)
            /\ \A j \in 1..Len(keywords[k]) : text[i + j - 1] = keywords[k][j]

\* C21: determine_difficulty returns on every text (the empty one included)
\* and sorts by priority: advanced when an advanced keyword is a substring of
\* the lower-cased text, whether or not a basic keyword is one too; else
\* basic_code when a basic keyword is a substring; else concept.
C21_DifficultyByPriority ==
    /\ classified = NoDifficulty => ENABLED classify
    /\ classified # NoDifficulty =>
          classified =
              IF HasKeyword(advanced_keywords, lower(question_type))
              THEN "advanced"
              ELSE IF HasKeyword(basic_keywords, lower(question_type))
                   THEN "basic_code"
                   ELSE "concept"

\* C21's case: a text with capitals that holds a basic keyword before an
\* advanced one has been classified advanced.
C21_Witness ==
    /\ classified = "advanced"
    /\ question_type # lower(question_type)
    /\ HasKeyword(basic_keywords, lower(question_type))
    /\ SubSeq(question_type, 1, 3) = <<"f", "i", "x">>

\* C22: a difficulty outside CONCEPT, BASIC_CODE, ADVANCED never makes the
\* call fail: get_difficulty_cap falls back to the configured default, which
\* lies in (0,1], and calculate_new_mastery returns what it returns at the
\* difficulty that has that cap, in both modes and on every other argument.
C22_UnknownDifficultyFallsBack ==
    /\ (result = NoResult /\ args.difficulty \notin TaskDifficulty) =>
           ENABLED calculate
    /\ (result # NoResult /\ args.difficulty \notin TaskDifficulty) =>
           /\ result.difficulty = args.difficulty
           /\ result.difficulty_cap = difficulty_basic_code
           /\ result.difficulty_cap > 0
           /\ result.difficulty_cap <= One
           /\ \E tie_up \in BOOLEAN :
                  result =
                      [ calculate_new_mastery(args.old_mastery, args.task_score,
                                              "basic_code",
                                              args.last_practice_time,
                                              args.use_enhanced, tie_up)
                        EXCEPT !.difficulty = args.difficulty ]

\* C22's case: an enhanced call at an unrecognised difficulty with a full
\* score has returned, and the mastery moved towards the default cap.
C22_Witness ==
    /\ result # NoResult
    /\ args.difficulty \notin TaskDifficulty
    /\ args.use_enhanced
    /\ args.task_score = One
    /\ args.old_mastery = 5000
    /\ result.new_mastery > result.old_mastery
    /\ result.new_mastery < result.difficulty_cap

----------------------------------------------------------------------------
(* Claims about the progress summary.                                      *)

\* The points of the ledger at or above their target.
MasteredPoints ==
    { n \in DOMAIN knowledge_points :
        knowledge_points[n].actual_mastery >= knowledge_points[n].target_mastery }

\* C23 as stated: total is the number of points, mastered the number at or
\* above target, and average_mastery times total is the sum of the
\* masteries (the exact mean); all three are 0 on an empty ledger.
C23_SummaryIsExactMean ==
    summary # NoSummary =>
        /\ summary.total = Cardinality(DOMAIN knowledge_points)
        /\ summary.mastered = Cardinality(MasteredPoints)
        /\ summary.average_mastery * summary.total = sum_mastery(knowledge_points)

\* C23, amended: get_progress_summary returns on every ledger; total is the
\* number of points, mastered the number at or above target (between 0 and
\* total), and average_mastery is the mean rounded to 3 decimals: a multiple
\* of 0.001 at most 0.0005 from the mean.  On an empty ledger all are 0.
C23_SummaryIsRoundedMean ==
    /\ summary = NoSummary => ENABLED progress_summary
    /\ summary # NoSummary =>
        /\ summary.total = Cardinality(DOMAIN knowledge_points)
        /\ summary.mastered = Cardinality(MasteredPoints)
        /\ summary.mastered >= 0
        /\ summary.mastered <= summary.total
        /\ summary.average_mastery % 10 = 0
        /\ LET off == summary.average_mastery * summary.total
                        - sum_mastery(knowledge_points)
           IN  2 * off <= 10 * summary.total /\ 2 * off >= -10 * summary.total
        /\ knowledge_points = EmptyMap =>
               summary = [total |-> 0, mastered |-> 0, average_mastery |-> 0]

\* C23's case: three points, one exactly at its target and one below, have
\* been summarised and the average is not the exact mean.
C23_Witness ==
    /\ summary # NoSummary
    /\ summary.total = 3
    /\ summary.mastered = 2
    /\ \E n \in DOMAIN knowledge_points :
           knowledge_points[n].actual_mastery = knowledge_points[n].target_mastery
    /\ summary.average_mastery * summary.total # sum_mastery(knowledge_points)

\* C24: an enhanced call selects its learning rate from the decayed baseline
\* A0 x beta (not from A0) with half-open buckets: below 0.2 the rate is 0.40,
\* from 0.2 to below 0.5 it is 0.35, from 0.5 to below 0.8 it is 0.25, from
\* 0.8 it is 0.15; a baseline exactly on a boundary gets the higher bucket's
\* rate.  (The product of two counts of 1/10000 is a count of 1/10^8.)
C24_RateByDecayedBaseline ==
    (result # NoResult /\ args.use_enhanced) =>
        LET decayed8 == result.old_mastery * result.time_decay
        IN  result.learning_rate =
                IF decayed8 < 20000000 THEN 4000
                ELSE IF decayed8 < 50000000 THEN 3500
                ELSE IF decayed8 < 80000000 THEN 2500
                ELSE 1500

\* C25: the tolerance factor of an enhanced call is decided by the clamped,
\* undecayed old mastery A0 and the clamped score S: it is 0.5 exactly when
\* A0 >= 0.7 and S < 0.5; otherwise it is 0.6 exactly when A0 <= 0.3 and
\* S > 0.8; otherwise it is 1.0; and no input meets both conditions.  The gap
\* since the last practice plays no part.
C25_ToleranceByUndecayedMastery ==
    (result # NoResult /\ args.use_enhanced) =>
        LET a0 == IF args.old_mastery < 0 THEN 0
                  ELSE IF args.old_mastery > 10000 THEN 10000
                  ELSE args.old_mastery
            s  == IF args.task_score < 0 THEN 0
                  ELSE IF args.task_score > 10000 THEN 10000
                  ELSE args.task_score
            slip  == a0 >= 7000 /\ s < 5000
            guess == a0 <= 3000 /\ s > 8000
        IN  /\ ~(slip /\ guess)
            /\ (result.tolerance_factor = 5000) <=> slip
            /\ (result.tolerance_factor = 6000) <=> (~slip /\ guess)
            /\ (result.tolerance_factor = 10000) <=> (~slip /\ ~guess)
            /\ result.tolerance_factor \in {5000, 6000, 10000}

\* C25's case: a mastery of 0.9 decayed to 0.09 by the longest gap, answered
\* with a score of 0.3, has been given the slip factor 0.5: the undecayed 0.9
\* decided, where the decayed 0.09 would have given 1.0.
C25_Witness ==
    /\ result # NoResult
    /\ args.use_enhanced
    /\ args.old_mastery = 9000
    /\ args.task_score = 3000
    /\ args.last_practice_time = DaysAgo(MaxDays)
    /\ result.old_mastery * result.time_decay < 3000 * 10000
    /\ result.tolerance_factor = 5000

\* The raw delta S x cap - A0 x beta of a returned call, in 1/10^8.
raw_delta(r) == r.task_score * r.difficulty_cap - r.old_mastery * r.time_decay

C27_MonotoneAcrossThresholds ==
    (result # NoResult /\ args.use_enhanced
       /\ args.task_score >= 0 /\ args.task_score <= One) =>
        \A s2 \in ComparedScores :
            (s2 > args.task_score /\ s2 <= One) =>
                \A tie_up \in BOOLEAN :
                    with_score(args, s2, tie_up).new_mastery >= result.new_mastery

\* Two scores that no tolerance threshold in force at mastery a0 separates:
\* the slip threshold 0.5 is in force from a0 = 0.7, the guess threshold 0.8
\* up to a0 = 0.3.
NotSeparated(a0, s1, s2) ==
    /\ a0 >= 7000 => ((s1 < 5000) <=> (s2 < 5000))
    /\ a0 <= 3000 => ((s1 > 8000) <=> (s2 > 8000))

\* C27, amended: for the same old mastery, difficulty and gap, an enhanced
\* call at a higher score in [0,1] never returns a lower new_mastery when
\* the two scores lie on the same side of the threshold in force: any two
\* scores for 0.3 < A0 < 0.7, both below 0.5 or both from 0.5 for A0 >= 0.7,
\* both up to 0.8 or both above 0.8 for A0 <= 0.3.
C27_MonotoneBetweenThresholds ==
    (result # NoResult /\ args.use_enhanced
       /\ args.task_score >= 0 /\ args.task_score <= One) =>
        \A s2 \in ComparedScores :
            (s2 > args.task_score /\ s2 <= One
               /\ NotSeparated(result.old_mastery, args.task_score, s2)) =>
                \A tie_up \in BOOLEAN :
                    with_score(args, s2, tie_up).new_mastery >= result.new_mastery

\* C27's case: a guess-dampened call (mastery 0.1, score 0.8001) has
\* returned, and the full score, dampened alike, gives a higher new mastery,
\* while the lower score 0.8 on the other side of the threshold gives a
\* higher one too.
C27_Witness ==
    /\ result # NoResult /\ args.use_enhanced
    /\ args.old_mastery = 1000 /\ args.task_score = 8001
    /\ args.last_practice_time = NoPractice
    /\ NotSeparated(result.old_mastery, args.task_score, One)
    /\ with_score(args, One, TRUE).new_mastery > result.new_mastery
    /\ with_score(args, 8000, TRUE).new_mastery > result.new_mastery

----------------------------------------------------------------------------
(* Claims about reaching the goal.                                         *)

\* The stored mastery as the point is_mastered is asked about, with target E.
StoredPoint(target_mastery) ==
    [actual_mastery |-> mastery, target_mastery |-> target_mastery]

----------------------------------------------------------------------------
(* Claims about the history of a point and the state file.                 *)

\* C29: the history of every tracked point is a chain: its first entry's
\* old_mastery is the mastery the point was created with, each later entry's
\* old_mastery is the entry before's new_mastery, and the last entry's
\* new_mastery is the point's actual_mastery (a point with no entry still
\* has the mastery it was created with), whatever add_knowledge_point calls
\* on tracked names come in between.
C29_HistoryIsAChain ==
    /\ DOMAIN created_with = DOMAIN knowledge_points
    /\ \A n \in DOMAIN knowledge_points :
           LET kp == knowledge_points[n]
               h  == kp.history
           IN  /\ h = <<>> => kp.actual_mastery = created_with[n]
               /\ h # <<>> =>
                      /\ h[1].old_mastery = created_with[n]
                      /\ h[Len(h)].new_mastery = kp.actual_mastery
               /\ \A i \in 1..(Len(h) - 1) :
                      h[i + 1].old_mastery = h[i].new_mastery

\* C29's case: a point created at 0.0 took an update and then an
\* add_knowledge_point call under its name with another initial mastery;
\* its one entry still starts at 0.0 and ends at the point's mastery.
C29_Witness ==
    \E n \in DOMAIN knowledge_points :
        LET kp == knowledge_points[n]
        IN  /\ Len(kp.history) = 1
            /\ created_with[n] = 0
            /\ kp.history[1].old_mastery = 0
            /\ kp.history[1].new_mastery = kp.actual_mastery
            /\ kp.actual_mastery # 0
            /\ call.op = "add_knowledge_point"
            /\ call.name = n
            /\ call.initial_mastery = 3000

\* The state file holds the serialization of the ledger in memory.
FileIsLedger ==
    /\ file.exists
    /\ file.data = json_dump([n \in DOMAIN knowledge_points |->
                                 to_dict(knowledge_points[n])])
    /\ load(file) = knowledge_points

\* C30: with a state file configured, after every add_knowledge_point call
\* and every update_mastery call that returned True the file holds the
\* serialization of the ledger as the call left it (and reads back as that
\* ledger); an update_mastery call that returns False leaves the file (and
\* the ledger) as it was.
C30_FileFollowsLedger ==
    /\ []( ( /\ state_file
             /\ \/ call.op = "add_knowledge_point"
                \/ call.op = "update_mastery" /\ call.ret )
           => FileIsLedger )
    /\ [][ (call'.op = "update_mastery" /\ ~call'.ret) =>
               file' = file /\ knowledge_points' = knowledge_points ]_vars

\* C30's case: with a state file, a second update of a tracked point has
\* returned True and the file holds the ledger with both history entries.
C30_Witness ==
    /\ state_file
    /\ call.op = "update_mastery"
    /\ call.ret
    /\ Len(knowledge_points[call.name].history) = 2
    /\ FileIsLedger
    /\ Len(load(file)[call.name].history) = 2

====
